---------------------------- MODULE Spec2Model ----------------------------
(***************************************************************************)
(* A model of the form manager of arturdoruch/js-form.                     *)
(*                                                                         *)
(*   - src/unnamed/part_000: HttpRequest and the earlier Form class, whose *)
(*     getData parses the field entries of serializeArray() into one       *)
(*     structured value, and whose _doSetData assigns values to elements.  *)
(*   - src/lib/Form.js: the current Form class (getData, setData,          *)
(*     resetData, setElementValue, the element name prefix, the listener   *)
(*     registries and refresh).                                            *)
(*                                                                         *)
(* JavaScript strings are sequences of one-character strings, so that the  *)
(* regular expressions, jQuery's $.param and the URI coding act on the     *)
(* characters as the code does.  JavaScript values are records             *)
(* [t, s, kids]: t is the type tag, s the text of a primitive, kids the    *)
(* own enumerable properties of an object or array, in for-in order.       *)
(***************************************************************************)
EXTENDS Integers, Sequences, FiniteSets, TLC

(***************************************************************************)
(* Characters and strings.                                                 *)
(***************************************************************************)
Digits == {"0", "1", "2", "3", "4", "5", "6", "7", "8", "9"}

Letters ==
    {"a", "b", "c", "d", "e", "f", "g", "h", "i", "j", "k", "l", "m",
     "n", "o", "p", "q", "r", "s", "t", "u", "v", "w", "x", "y", "z",
     "A", "B", "C", "D", "E", "F", "G", "H", "I", "J", "K", "L", "M",
     "N", "O", "P", "Q", "R", "S", "T", "U", "V", "W", "X", "Y", "Z"}

\* The class [a-zA-Z0-9_] of the patterns.
WordChars == Letters \cup Digits \cup {"_"}

AllIn(s, S) == \A i \in DOMAIN s : s[i] \in S

EndsWith(s, suf) ==
    /\ Len(suf) <= Len(s)
    /\ SubSeq(s, Len(s) - Len(suf) + 1, Len(s)) = suf

\* s.replace(new RegExp(suf + "$"), ''), for a literal suf.
StripSuffix(s, suf) ==
    IF EndsWith(s, suf) THEN SubSeq(s, 1, Len(s) - Len(suf)) ELSE s

\* The first position at or after i of s that holds no character of S
\* (Len(s) + 1 when the run reaches the end).
RECURSIVE RunEnd(_, _, _)
RunEnd(s, i, S) ==
    IF i <= Len(s) /\ s[i] \in S THEN RunEnd(s, i + 1, S) ELSE i

DigitChar(d) ==
    CASE d = 0 -> "0" [] d = 1 -> "1" [] d = 2 -> "2" [] d = 3 -> "3"
      [] d = 4 -> "4" [] d = 5 -> "5" [] d = 6 -> "6" [] d = 7 -> "7"
      [] d = 8 -> "8" [] d = 9 -> "9"

\* String(n) of a natural number.
RECURSIVE NatToString(_)
NatToString(n) ==
    IF n < 10 THEN <<DigitChar(n)>>
    ELSE NatToString(n \div 10) \o <<DigitChar(n % 10)>>

\* The text of the number NaN.
NaNString == <<"N", "a", "N">>

(***************************************************************************)
(* JavaScript values.                                                      *)
(***************************************************************************)
JStr(s) == [t |-> "str", s |-> s, kids |-> <<>>]
JNum(s) == [t |-> "num", s |-> s, kids |-> <<>>]
JBool(s) == [t |-> "bool", s |-> s, kids |-> <<>>]
JObj(kids) == [t |-> "obj", s |-> <<>>, kids |-> kids]
JArr(kids) == [t |-> "arr", s |-> <<>>, kids |-> kids]
JUndefined == [t |-> "undefined", s |-> <<>>, kids |-> <<>>]
\* A function inherited from Object.prototype.
JFunction == [t |-> "function", s |-> <<>>, kids |-> <<>>]

EmptyObject == JObj(<<>>)
EmptyArray == JArr(<<>>)

\* The property names every plain object inherits from Object.prototype
\* (those a name of the grammar can spell).
ObjectPrototypeKeys ==
    {<<"c", "o", "n", "s", "t", "r", "u", "c", "t", "o", "r">>,
     <<"t", "o", "S", "t", "r", "i", "n", "g">>,
     <<"v", "a", "l", "u", "e", "O", "f">>}

\* An array index: the canonical text of a natural number.
IsIndexKey(k) ==
    /\ Len(k) >= 1
    /\ AllIn(k, Digits)
    /\ (Len(k) = 1 \/ k[1] # "0")

RECURSIVE StringToNat(_)
StringToNat(k) ==
    IF Len(k) = 0 THEN 0
    ELSE 10 * StringToNat(SubSeq(k, 1, Len(k) - 1))
         + (CHOOSE d \in 0..9 : DigitChar(d) = k[Len(k)])

HasOwn(v, k) == \E i \in DOMAIN v.kids : v.kids[i].k = k

GetOwn(v, k) ==
    IF HasOwn(v, k)
    THEN v.kids[CHOOSE i \in DOMAIN v.kids : v.kids[i].k = k].v
    ELSE JUndefined

\* v[k] of a plain object: the own property, else the inherited one.
GetProp(v, k) ==
    IF HasOwn(v, k) THEN GetOwn(v, k)
    ELSE IF v.t = "obj" /\ k \in ObjectPrototypeKeys THEN JFunction
    ELSE JUndefined

\* Where a new property k comes in for-in order: index keys ascending first,
\* then the other keys in insertion order.
InsertAt(kids, k) ==
    IF IsIndexKey(k)
    THEN 1 + Cardinality({i \in DOMAIN kids :
                 IsIndexKey(kids[i].k)
                 /\ StringToNat(kids[i].k) < StringToNat(k)})
    ELSE Len(kids) + 1

\* v[k] = x
SetProp(v, k, x) ==
    IF HasOwn(v, k)
    THEN [v EXCEPT !.kids =
            [i \in DOMAIN v.kids |->
                IF v.kids[i].k = k THEN [k |-> k, v |-> x] ELSE v.kids[i]]]
    ELSE LET p == InsertAt(v.kids, k)
         IN [v EXCEPT !.kids =
                SubSeq(v.kids, 1, p - 1) \o <<[k |-> k, v |-> x]>>
                \o SubSeq(v.kids, p, Len(v.kids))]

\* The length of an array: one more than its largest index.
ArrayLength(v) ==
    LET idx == {StringToNat(v.kids[i].k) :
                    i \in {j \in DOMAIN v.kids : IsIndexKey(v.kids[j].k)}}
    IN IF idx = {} THEN 0 ELSE 1 + (CHOOSE m \in idx : \A n \in idx : n <= m)

IsPlainObject(v) == v.t = "obj"
IsArray(v) == v.t = "arr"

\* jQuery.extend(true, target, options): the deep merge of options into
\* target, property by property in for-in order.
RECURSIVE Extend(_, _)
RECURSIVE ExtendFrom(_, _, _)
ExtendFrom(target, options, i) ==
    IF i > Len(options.kids) THEN target
    ELSE LET name == options.kids[i].k
             copy == options.kids[i].v
             src == GetProp(target, name)
             clone == IF IsArray(copy) /\ ~IsArray(src) THEN EmptyArray
                      ELSE IF ~IsArray(copy) /\ ~IsPlainObject(src)
                           THEN EmptyObject
                      ELSE src
             next == IF IsPlainObject(copy) \/ IsArray(copy)
                     THEN SetProp(target, name, Extend(clone, copy))
                     ELSE IF copy.t # "undefined"
                          THEN SetProp(target, name, copy)
                     ELSE target
         IN ExtendFrom(next, options, i + 1)

Extend(target, options) == ExtendFrom(target, options, 1)


(***************************************************************************)
(* Form.getData of src/unnamed/part_000: the parser of field names.        *)
(***************************************************************************)
\* patterns.validate: the tail (?:\[(?:\d*|[a-zA-Z0-9_]+)\])*$ from i on.
RECURSIVE ValidateGroups(_, _)
ValidateGroups(s, i) ==
    IF i > Len(s) THEN TRUE
    ELSE /\ s[i] = "["
         /\ LET d == RunEnd(s, i + 1, Digits)
                w == RunEnd(s, i + 1, WordChars)
            IN \/ d <= Len(s) /\ s[d] = "]" /\ ValidateGroups(s, d + 1)
               \/ w > i + 1 /\ w <= Len(s) /\ s[w] = "]"
                  /\ ValidateGroups(s, w + 1)

\* A validator that lets a group stay unclosed at the end of the name.
RECURSIVE ValidateGroupsUnclosed(_, _)
ValidateGroupsUnclosed(s, i) ==
    IF i > Len(s) THEN TRUE
    ELSE /\ s[i] = "["
         /\ LET w == RunEnd(s, i + 1, WordChars)
            IN \/ w > Len(s)
               \/ s[w] = "]" /\ ValidateGroupsUnclosed(s, w + 1)

PatternsValidateUnclosed(name) ==
    /\ Len(name) >= 1
    /\ name[1] \in Letters
    /\ ValidateGroupsUnclosed(name, RunEnd(name, 2, WordChars))

\* patterns.validate.test(name)
PatternsValidate(name) ==
    /\ Len(name) >= 1
    /\ name[1] \in Letters
    /\ ValidateGroups(name, RunEnd(name, 2, WordChars))

\* name.match(patterns.key) from position i on: every run of word
\* characters, and an empty match wherever "[]" follows.
RECURSIVE MatchKeys(_, _)
MatchKeys(s, i) ==
    IF i > Len(s) THEN <<>>
    ELSE IF s[i] \in WordChars
         THEN LET j == RunEnd(s, i, WordChars)
              IN <<SubSeq(s, i, j - 1)>> \o MatchKeys(s, j)
    ELSE IF s[i] = "[" /\ i + 1 <= Len(s) /\ s[i + 1] = "]"
         THEN << <<>> >> \o MatchKeys(s, i + 1)
    ELSE MatchKeys(s, i + 1)

\* build(base, key, value)
Build(base, key, value) == SetProp(base, key, value)

\* pushCounter(key) on the plain object pushCounters: the index it returns
\* (as the property name build is given) and the counters afterwards.  A key
\* that Object.prototype defines is not undefined: ++ turns it into NaN.
PushCounter(counters, key) ==
    LET cur == IF key \in DOMAIN counters THEN counters[key]
               ELSE IF key \in ObjectPrototypeKeys
                    THEN [nan |-> TRUE, n |-> 0]
               ELSE [nan |-> FALSE, n |-> 0]
        inc == IF cur.nan THEN cur ELSE [nan |-> FALSE, n |-> cur.n + 1]
    IN [index |-> IF cur.nan THEN NaNString ELSE NatToString(cur.n),
        counters |-> [k \in DOMAIN counters \cup {key} |->
                        IF k = key THEN inc ELSE counters[k]]]

\* The while loop over keys.pop(), keys[j] being the key popped next.
RECURSIVE PopKeys(_, _, _, _, _)
PopKeys(keys, j, merge, reverseKey, counters) ==
    IF j = 0 THEN [merge |-> merge, counters |-> counters]
    ELSE LET k == keys[j]
             rk == StripSuffix(reverseKey, <<"[">> \o k \o <<"]">>)
         IN IF k = <<>>
            THEN LET pc == PushCounter(counters, rk)
                 IN PopKeys(keys, j - 1, Build(EmptyArray, pc.index, merge),
                            rk, pc.counters)
            ELSE IF AllIn(k, Digits)
                 THEN PopKeys(keys, j - 1, Build(EmptyArray, k, merge),
                              rk, counters)
            ELSE IF AllIn(k, WordChars)
                 THEN PopKeys(keys, j - 1, Build(EmptyObject, k, merge),
                              rk, counters)
            ELSE PopKeys(keys, j - 1, merge, rk, counters)

\* Whether the loop skips the entry.
SkipsElement(element, skipEmptyValues) ==
    \/ ~PatternsValidate(element.name)
    \/ skipEmptyValues /\ element.value = <<>>

\* One iteration of the for loop of getData on st = [data, counters].
GetDataIteration(st, element, skipEmptyValues) ==
    IF SkipsElement(element, skipEmptyValues) THEN st
    ELSE LET r == PopKeys(MatchKeys(element.name, 1),
                          Len(MatchKeys(element.name, 1)),
                          JStr(element.value), element.name, st.counters)
         IN [data |-> Extend(st.data, r.merge), counters |-> r.counters]

GetDataStart == [data |-> EmptyObject, counters |-> <<>>]

\* getData over a whole list of field entries.
RECURSIVE GetDataLoop(_, _, _)
GetDataLoop(st, elements, skipEmptyValues) ==
    IF elements = <<>> THEN st
    ELSE GetDataLoop(GetDataIteration(st, Head(elements), skipEmptyValues),
                     Tail(elements), skipEmptyValues)

ParseEntries(elements, skipEmptyValues) ==
    GetDataLoop(GetDataStart, elements, skipEmptyValues).data


(***************************************************************************)
(* The DOM the Form classes work on.  An element of form.elements is a     *)
(* record [nodeName, type, name, value, checked, disabled, options]; an    *)
(* option is [value, selected].                                            *)
(***************************************************************************)
\* element.value of a select: the value of its first selected option.
SelectValue(options) ==
    LET sel == {i \in DOMAIN options : options[i].selected}
    IN IF sel = {} THEN <<>>
       ELSE options[CHOOSE m \in sel : \A n \in sel : m <= n].value

\* element.value
ElementValue(el) ==
    IF el.nodeName = "SELECT" THEN SelectValue(el.options) ELSE el.value

\* select.selectedIndex = -1: no option stays selected.
ClearSelection(el) ==
    [el EXCEPT !.options =
        [i \in DOMAIN el.options |-> [el.options[i] EXCEPT !.selected = FALSE]]]

\* What a select-one of display size 1 does when asked for a reset: with no
\* option selected, its first option is selected.
AskForReset(el) ==
    IF /\ el.type = "select-one"
       /\ el.options # <<>>
       /\ \A i \in DOMAIN el.options : ~el.options[i].selected
    THEN [el EXCEPT !.options[1].selected = TRUE]
    ELSE el

\* option.selected = flag, on the i-th option of a select: in a select-one a
\* selected option unselects the others, and the select is asked for a reset.
SetOptionSelected(el, i, flag) ==
    AskForReset(
        [el EXCEPT !.options =
            [j \in DOMAIN el.options |->
                IF j = i THEN [el.options[j] EXCEPT !.selected = flag]
                ELSE IF flag /\ el.type = "select-one"
                     THEN [el.options[j] EXCEPT !.selected = FALSE]
                ELSE el.options[j]]])

\* element.checked = flag, on the i-th element: a radio button that becomes
\* checked unchecks the other radio buttons of its group.
SetChecked(els, i, flag) ==
    [j \in DOMAIN els |->
        IF j = i THEN [els[j] EXCEPT !.checked = flag]
        ELSE IF /\ flag
                /\ els[i].type = "radio"
                /\ els[j].type = "radio"
                /\ els[j].name = els[i].name
                /\ els[i].name # <<>>
             THEN [els[j] EXCEPT !.checked = FALSE]
        ELSE els[j]]

\* The positions of the elements form.elements.namedItem(name) stands for:
\* none (null), one (the element) or several (a RadioNodeList).
NamedItem(els, name) ==
    IF name = <<>> THEN {} ELSE {i \in DOMAIN els : els[i].name = name}

\* The members of a set of positions, in tree order.
RECURSIVE InOrder(_)
InOrder(S) ==
    IF S = {} THEN <<>>
    ELSE LET m == CHOOSE x \in S : \A y \in S : x <= y
         IN <<m>> \o InOrder(S \ {m})

(***************************************************************************)
(* Conversions of JavaScript values.                                       *)
(***************************************************************************)
JNull == [t |-> "null", s |-> <<>>, kids |-> <<>>]

\* The items a for-of loop, or jQuery.each, sees in an array: index 0 to
\* length - 1, a hole giving undefined.
ArrayItems(v) ==
    [i \in 1..ArrayLength(v) |-> GetOwn(v, NatToString(i - 1))]

\* array.push(x)
ArrayPush(v, x) == SetProp(v, NatToString(ArrayLength(v)), x)

ObjectObjectString ==
    <<"[", "o", "b", "j", "e", "c", "t", " ", "O", "b", "j", "e", "c", "t", "]">>

UndefinedString == <<"u", "n", "d", "e", "f", "i", "n", "e", "d">>

FunctionString == <<"f", "u", "n", "c", "t", "i", "o", "n">>

\* String(v)
RECURSIVE ToStringJS(_)
RECURSIVE JoinItems(_, _)
JoinItems(items, i) ==
    IF i > Len(items) THEN <<>>
    ELSE (IF i > 1 THEN <<",">> ELSE <<>>)
         \o (IF items[i].t \in {"undefined", "null"} THEN <<>>
             ELSE ToStringJS(items[i]))
         \o JoinItems(items, i + 1)

ToStringJS(v) ==
    CASE v.t \in {"str", "num", "bool"} -> v.s
      [] v.t = "arr" -> JoinItems(ArrayItems(v), 1)
      [] v.t = "obj" -> ObjectObjectString
      [] v.t = "undefined" -> UndefinedString
      [] v.t = "null" -> <<"n", "u", "l", "l">>
      [] v.t = "function" -> FunctionString

\* Number(s) of a string, where it is a natural number: -1 stands for NaN.
StringToNumber(s) ==
    IF s = <<>> THEN 0
    ELSE IF AllIn(s, Digits) THEN StringToNat(s)
    ELSE -1

\* Number(v) of a primitive.
ToNumber(v) ==
    CASE v.t = "str" -> StringToNumber(v.s)
      [] v.t = "num" -> StringToNumber(v.s)
      [] v.t = "bool" -> IF v.s = <<"t", "r", "u", "e">> THEN 1 ELSE 0
      [] OTHER -> -1

\* val == text, text being the string value of an option or element.
LooseEquals(val, text) ==
    CASE val.t = "str" -> val.s = text
      [] val.t \in {"num", "bool"} ->
            ToNumber(val) # -1 /\ ToNumber(val) = StringToNumber(text)
      [] val.t \in {"arr", "obj", "function"} -> ToStringJS(val) = text
      [] OTHER -> FALSE

\* Whether a for-of loop can iterate the value.
IsIterable(v) == v.t \in {"arr", "str"}

\* !v
Falsy(v) ==
    \/ v.t \in {"undefined", "null"}
    \/ v.t = "str" /\ v.s = <<>>
    \/ v.t = "num" /\ ToNumber(v) \in {0, -1}
    \/ v.t = "bool" /\ v.s # <<"t", "r", "u", "e">>


(***************************************************************************)
(* jQuery.param and the URI coding, as setData of src/lib/Form.js uses     *)
(* them (lines 328-334).                                                   *)
(***************************************************************************)
\* The characters encodeURIComponent leaves as they are.
UriUnreserved == WordChars \cup {"-", ".", "!", "~", "*", "'", "(", ")"}

\* encodeURIComponent of one character of the texts the model uses.
EncodeChar(c) ==
    CASE c \in UriUnreserved -> <<c>>
      [] c = "[" -> <<"%", "5", "B">>
      [] c = "]" -> <<"%", "5", "D">>
      [] c = "=" -> <<"%", "3", "D">>
      [] c = "&" -> <<"%", "2", "6">>
      [] c = "%" -> <<"%", "2", "5">>
      [] c = "," -> <<"%", "2", "C">>
      [] c = " " -> <<"%", "2", "0">>

EscapedChars == {"[", "]", "=", "&", "%", ",", " "}

RECURSIVE EncodeURIComponent(_)
EncodeURIComponent(s) ==
    IF s = <<>> THEN <<>>
    ELSE EncodeChar(Head(s)) \o EncodeURIComponent(Tail(s))

\* decodeURIComponent: every %XX escape becomes its character again.
RECURSIVE DecodeURIComponent(_)
DecodeURIComponent(s) ==
    IF s = <<>> THEN <<>>
    ELSE IF Head(s) = "%" /\ Len(s) >= 3
         THEN <<CHOOSE c \in EscapedChars : EncodeChar(c) = SubSeq(s, 1, 3)>>
              \o DecodeURIComponent(SubSeq(s, 4, Len(s)))
    ELSE <<Head(s)>> \o DecodeURIComponent(Tail(s))

\* s.split(sep), sep one character.
RECURSIVE Split(_, _)
Split(s, sep) ==
    LET at == {i \in DOMAIN s : s[i] = sep}
    IN IF at = {} THEN <<s>>
       ELSE LET i == CHOOSE m \in at : \A n \in at : m <= n
            IN <<SubSeq(s, 1, i - 1)>> \o Split(SubSeq(s, i + 1, Len(s)), sep)

\* add(key, value) of jQuery.param: one "key=value" parameter.
ParamAdd(key, value) ==
    EncodeURIComponent(key) \o <<"=">>
    \o EncodeURIComponent(IF value.t \in {"undefined", "null"} THEN <<>>
                          ELSE ToStringJS(value))

\* buildParams(prefix, obj, false, add): the parameters of obj, in order.
RECURSIVE BuildParams(_, _)
RECURSIVE BuildParamsArray(_, _, _)
RECURSIVE BuildParamsObject(_, _, _)
BuildParamsArray(prefix, items, i) ==
    IF i > Len(items) THEN <<>>
    ELSE LET v == items[i]
         IN (IF EndsWith(prefix, <<"[", "]">>) THEN <<ParamAdd(prefix, v)>>
             ELSE BuildParams(
                    prefix \o <<"[">>
                    \o (IF v.t \in {"obj", "arr"} THEN NatToString(i - 1)
                        ELSE <<>>)
                    \o <<"]">>, v))
            \o BuildParamsArray(prefix, items, i + 1)

BuildParamsObject(prefix, kids, i) ==
    IF i > Len(kids) THEN <<>>
    ELSE BuildParams(prefix \o <<"[">> \o kids[i].k \o <<"]">>, kids[i].v)
         \o BuildParamsObject(prefix, kids, i + 1)

BuildParams(prefix, obj) ==
    IF IsArray(obj) THEN BuildParamsArray(prefix, ArrayItems(obj), 1)
    ELSE IF IsPlainObject(obj) THEN BuildParamsObject(prefix, obj.kids, 1)
    ELSE <<ParamAdd(prefix, obj)>>

RECURSIVE ParamTop(_, _)
ParamTop(kids, i) ==
    IF i > Len(kids) THEN <<>>
    ELSE BuildParams(kids[i].k, kids[i].v) \o ParamTop(kids, i + 1)

RECURSIVE JoinWith(_, _)
JoinWith(parts, sep) ==
    IF parts = <<>> THEN <<>>
    ELSE IF Len(parts) = 1 THEN parts[1]
    ELSE parts[1] \o <<sep>> \o JoinWith(Tail(parts), sep)

\* $.param(data) of a plain object.
Param(data) == JoinWith(ParamTop(data.kids, 1), "&")

\* The loop of setData over the query parameters (lines 331-345).
RECURSIVE Deserialize(_, _)
Deserialize(data, queryParameters) ==
    IF queryParameters = <<>> THEN data
    ELSE LET parts == Split(Head(queryParameters), "=")
             name == DecodeURIComponent(parts[1])
             value == IF Len(parts) >= 2 THEN DecodeURIComponent(parts[2])
                      ELSE UndefinedString
             list == IF HasOwn(data, name) THEN GetOwn(data, name)
                     ELSE EmptyArray
             next == IF EndsWith(name, <<"[", "]">>)
                     THEN SetProp(data, name, ArrayPush(list, JStr(value)))
                     ELSE SetProp(data, name, JStr(value))
         IN Deserialize(next, Tail(queryParameters))


(***************************************************************************)
(* The assignment routine: Form._setElementValues of src/lib/Form.js and   *)
(* Form._doSetData of src/unnamed/part_000.  The two differ in one place:  *)
(* what a matching option's selected property is set to.                   *)
(***************************************************************************)
\* option.selected = true (src/lib/Form.js, line 539).
SelectedFlagLib(i) == TRUE

\* option.selected = i (src/unnamed/part_000, line 446), i counting from 0.
SelectedFlagOld(i) == i # 0

SelectedFlag(version, i) ==
    IF version = "lib" THEN SelectedFlagLib(i) ELSE SelectedFlagOld(i)

\* typeof value === 'string' ? [value] : value, as the items of the for-of.
TargetItems(value) ==
    IF value.t = "str" THEN <<value>> ELSE ArrayItems(value)

\* The inner for-of at one option: every matching item sets the option.
RECURSIVE MatchOption(_, _, _, _, _)
MatchOption(el, i, items, n, version) ==
    IF n > Len(items) THEN el
    ELSE MatchOption(
            IF LooseEquals(items[n], el.options[i].value)
            THEN SetOptionSelected(el, i, SelectedFlag(version, i - 1))
            ELSE el,
            i, items, n + 1, version)

RECURSIVE MatchOptions(_, _, _, _)
MatchOptions(el, i, items, version) ==
    IF i > Len(el.options) THEN el
    ELSE MatchOptions(MatchOption(el, i, items, 1, version),
                      i + 1, items, version)

\* case 'select-one', 'select-multiple'
AssignSelect(el, value, version) ==
    IF ~IsIterable(value) /\ el.options # <<>>
    THEN [threw |-> TRUE, el |-> ClearSelection(el)]
    ELSE [threw |-> FALSE,
          el |-> IF IsIterable(value)
                 THEN MatchOptions(ClearSelection(el), 1,
                                   TargetItems(value), version)
                 ELSE ClearSelection(el)]

\* case 'radio', 'checkbox', on the i-th element.
AssignChecked(els, i, value) ==
    LET cleared == SetChecked(els, i, FALSE)
    IN IF ~IsIterable(value) THEN [threw |-> TRUE, els |-> cleared]
       ELSE [threw |-> FALSE,
             els |-> IF \E n \in DOMAIN TargetItems(value) :
                            LooseEquals(TargetItems(value)[n], els[i].value)
                     THEN SetChecked(cleared, i, TRUE)
                     ELSE cleared]

\* radioNodeList.value = text: the first radio button of the list with that
\* value becomes checked; other kinds of element are not touched.
SetRadioNodeListValue(els, at, text) ==
    LET hit == {i \in at : els[i].type = "radio" /\ els[i].value = text}
    IN IF hit = {} THEN els
       ELSE SetChecked(els, CHOOSE m \in hit : \A n \in hit : m <= n, TRUE)

\* The body of the for loop for one target: one element (at = {i}, list
\* FALSE) or a RadioNodeList, which has neither a name nor a type.
AssignTarget(els, target, data, version) ==
    LET i == CHOOSE m \in target.at : \A n \in target.at : m <= n
        key == IF target.list THEN UndefinedString ELSE els[i].name
        value == GetProp(data, key)
        type == IF target.list THEN "undefined" ELSE els[i].type
    IN IF value.t = "undefined" THEN [threw |-> FALSE, els |-> els]
       ELSE IF type \in {"submit", "reset", "button"}
            THEN [threw |-> FALSE, els |-> els]
       ELSE IF type \in {"select-one", "select-multiple"}
            THEN LET r == AssignSelect(els[i], value, version)
                 IN [threw |-> r.threw, els |-> [els EXCEPT ![i] = r.el]]
       ELSE IF type \in {"radio", "checkbox"}
            THEN AssignChecked(els, i, value)
       ELSE IF target.list
            THEN [threw |-> FALSE,
                  els |-> SetRadioNodeListValue(els, target.at,
                                                ToStringJS(value))]
       ELSE [threw |-> FALSE,
             els |-> [els EXCEPT ![i].value =
                        IF value.t = "null" THEN <<>> ELSE ToStringJS(value)]]

\* _setElementValues(elements, data) / _doSetData(data, elements): the for
\* loop over the targets, left at the first one that throws.
RECURSIVE SetElementValues(_, _, _, _)
SetElementValues(els, targets, data, version) ==
    IF targets = <<>> THEN [threw |-> FALSE, els |-> els]
    ELSE LET r == AssignTarget(els, Head(targets), data, version)
         IN IF r.threw THEN r
            ELSE SetElementValues(r.els, Tail(targets), data, version)

\* this._elements as targets: every element, one by one.
AllTargets(els) == [i \in DOMAIN els |-> [list |-> FALSE, at |-> {i}]]


(***************************************************************************)
(* The Form class of src/lib/Form.js.                                      *)
(***************************************************************************)
\* A value used as a condition.
Truthy(v) == ~Falsy(v)

\* _prepareElementName(name): /^\[.+\]$/ asks for a "[", at least one
\* character, and a "]".
PrepareElementName(prefix, name) ==
    IF /\ Truthy(prefix)
       /\ Len(name) >= 3
       /\ name[1] = "["
       /\ name[Len(name)] = "]"
    THEN prefix.s \o name
    ELSE name

\* hasElement(name)
HasElement(els, prefix, name) ==
    NamedItem(els, PrepareElementName(prefix, name)) # {}

\* getElement(name): throws when namedItem gives null; else the element,
\* or the RadioNodeList of the elements sharing the name.
GetElement(els, prefix, name) ==
    LET at == NamedItem(els, PrepareElementName(prefix, name))
    IN [threw |-> at = {}, list |-> Cardinality(at) > 1, at |-> at]

\* The values of the selected options, in tree order.
SelectedValues(options) ==
    LET sel == InOrder({i \in DOMAIN options : options[i].selected})
    IN JArr([n \in DOMAIN sel |->
                [k |-> NatToString(n - 1), v |-> JStr(options[sel[n]].value)]])

\* The values of the checked members of a RadioNodeList, in tree order.
CheckedValues(els, at) ==
    LET sel == InOrder({i \in at : els[i].checked})
    IN JArr([n \in DOMAIN sel |->
                [k |-> NatToString(n - 1), v |-> JStr(els[sel[n]].value)]])

\* The value of the first checked member of a RadioNodeList, else ''.
FirstCheckedValue(els, at) ==
    LET sel == {i \in at : els[i].checked}
    IN IF sel = {} THEN JStr(<<>>)
       ELSE JStr(els[CHOOSE m \in sel : \A n \in sel : m <= n].value)

\* An emptiness that knows of strings only.
IsEmptyString(value) == Falsy(value)

\* skipEmptyValues === true && (!value || !value.length)
IsEmptyValue(value) ==
    \/ Falsy(value)
    \/ value.t = "str" /\ value.s = <<>>
    \/ value.t = "arr" /\ ArrayLength(value) = 0

\* The body of the for loop of _getElementValues for the i-th element:
\* [threw, skip, value].
ElementValueOf(els, prefix, data, i) ==
    LET el == els[i]
        got == GetElement(els, prefix, el.name)
        none == [threw |-> FALSE, skip |-> TRUE, value |-> JUndefined]
        give(v) == [threw |-> FALSE, skip |-> FALSE, value |-> v]
    IN IF el.name = <<>> \/ el.nodeName = "BUTTON" \/ el.disabled THEN none
       ELSE IF el.type = "select-multiple"
            THEN give(SelectedValues(el.options))
       ELSE IF el.type = "checkbox"
            THEN IF HasOwn(data, el.name) THEN none
                 ELSE IF got.threw
                      THEN [threw |-> TRUE, skip |-> TRUE, value |-> JUndefined]
                 ELSE IF got.list THEN give(CheckedValues(els, got.at))
                 ELSE IF EndsWith(el.name, <<"[", "]">>)
                      THEN give(IF el.checked
                                THEN JArr(<<[k |-> <<"0">>, v |-> JStr(el.value)]>>)
                                ELSE EmptyArray)
                 ELSE IF ~el.checked THEN none
                 ELSE give(JStr(el.value))
       ELSE IF el.type = "radio"
            THEN IF HasOwn(data, el.name) THEN none
                 ELSE IF got.threw
                      THEN [threw |-> TRUE, skip |-> TRUE, value |-> JUndefined]
                 ELSE IF got.list THEN give(FirstCheckedValue(els, got.at))
                 ELSE give(JStr(el.value))
       ELSE give(JStr(ElementValue(el)))

\* _getElementValues(skipEmptyValues) from the i-th element on:
\* [threw, data].
RECURSIVE GetElementValuesFrom(_, _, _, _, _)
GetElementValuesFrom(els, prefix, skipEmptyValues, data, i) ==
    IF i > Len(els) THEN [threw |-> FALSE, data |-> data]
    ELSE LET r == ElementValueOf(els, prefix, data, i)
         IN IF r.threw THEN [threw |-> TRUE, data |-> data]
            ELSE GetElementValuesFrom(els, prefix, skipEmptyValues,
                    IF r.skip \/ (skipEmptyValues /\ IsEmptyValue(r.value))
                    THEN data
                    ELSE SetProp(data, els[i].name, r.value),
                    i + 1)

GetElementValues(els, prefix, skipEmptyValues) ==
    GetElementValuesFrom(els, prefix, skipEmptyValues, EmptyObject, 1)

\* name.match(/[^\[\]]+/g) from position i on: the runs of characters that
\* are no brackets (no run at all: null).
RECURSIVE MatchNames(_, _)
MatchNames(s, i) ==
    IF i > Len(s) THEN <<>>
    ELSE IF s[i] \in {"[", "]"} THEN MatchNames(s, i + 1)
    ELSE LET rest == {j \in i..Len(s) : s[j] \in {"[", "]"}}
             j == IF rest = {} THEN Len(s) + 1
                  ELSE CHOOSE m \in rest : \A n \in rest : m <= n
         IN <<SubSeq(s, i, j - 1)>> \o MatchNames(s, j)

\* The while loop over names.pop() (lines 295-301).
RECURSIVE PopNames(_, _, _)
PopNames(names, j, value) ==
    IF j = 0 THEN value
    ELSE PopNames(names, j - 1,
            IF AllIn(names[j], Digits)
            THEN Build(EmptyArray, names[j], value)
            ELSE Build(EmptyObject, names[j], value))

\* The for-in loop of getData over elementValues (lines 290-304):
\* [threw, data].
RECURSIVE SerializeFrom(_, _, _)
SerializeFrom(kids, i, data) ==
    IF i > Len(kids) THEN [threw |-> FALSE, data |-> data]
    ELSE LET names == MatchNames(kids[i].k, 1)
         IN IF names = <<>> THEN [threw |-> TRUE, data |-> data]
            ELSE SerializeFrom(kids, i + 1,
                    Extend(data, PopNames(names, Len(names), kids[i].v)))

\* getData(skipEmptyValues, serialized): [threw, data].
LibGetData(els, prefix, skipEmptyValues, serialized) ==
    LET ev == GetElementValues(els, prefix, skipEmptyValues)
    IN IF ev.threw \/ ~serialized THEN ev
       ELSE SerializeFrom(ev.data.kids, 1, EmptyObject)

\* setData(data, serialized): [threw, els].
LibSetData(els, prefix, data, serialized) ==
    LET wrapped == IF serialized /\ Truthy(prefix) /\ ~HasOwn(data, prefix.s)
                   THEN JObj(<<[k |-> prefix.s, v |-> data]>>)
                   ELSE data
        flat == IF serialized
                THEN Deserialize(EmptyObject, Split(Param(wrapped), "&"))
                ELSE wrapped
    IN SetElementValues(els, AllTargets(els), flat, "lib")

\* setElementValue(name, value): [threw, els].
LibSetElementValue(els, prefix, name, value) ==
    LET got == GetElement(els, prefix, name)
        i == CHOOSE m \in got.at : \A n \in got.at : m <= n
        key == IF got.list THEN UndefinedString ELSE els[i].name
    IN IF got.threw THEN [threw |-> TRUE, els |-> els]
       ELSE SetElementValues(els, <<[list |-> got.list, at |-> got.at]>>,
                             JObj(<<[k |-> key, v |-> value]>>), "lib")


\* for (const option of element.options) option.selected = false
RECURSIVE UnselectFrom(_, _)
UnselectFrom(el, i) ==
    IF i > Len(el.options) THEN el
    ELSE UnselectFrom(SetOptionSelected(el, i, FALSE), i + 1)

\* preserveElements.map(this._prepareElementName.bind(this))
PreparedNames(prefix, names) ==
    {PrepareElementName(prefix, names[n]) : n \in DOMAIN names}

\* A reset that turns a checkbox or radio button over.
ResetElementFlipping(el, preserved, keepHidden) ==
    IF el.name \in preserved \/ (el.type = "hidden" /\ keepHidden) THEN el
    ELSE IF el.type \in {"radio", "checkbox"}
         THEN [el EXCEPT !.checked = ~el.checked]
    ELSE [el EXCEPT !.value = <<>>]

\* The body of the for loop of resetData for one element; preserved is the
\* set of names indexOf finds, keepHidden is resetHidden === false.
ResetElement(el, preserved, keepHidden) ==
    IF el.name \in preserved \/ (el.type = "hidden" /\ keepHidden) THEN el
    ELSE IF el.nodeName = "SELECT" THEN UnselectFrom(el, 1)
    ELSE IF el.nodeName = "BUTTON" THEN el
    ELSE IF el.type \in {"radio", "checkbox"}
         THEN [el EXCEPT !.checked = FALSE]
    ELSE [el EXCEPT !.value = <<>>]

\* resetData(preserveElements, resetHidden)
LibResetData(els, prefix, preserveElements, resetHidden) ==
    [i \in DOMAIN els |->
        ResetElement(els[i], PreparedNames(prefix, preserveElements),
                     resetHidden.t = "bool" /\ Falsy(resetHidden))]

\* useNameAsElementNamePrefix(): this._form.name
UseNameAsElementNamePrefix(formName) == JStr(formName)

(***************************************************************************)
(* The Form class of src/unnamed/part_000, which has no name prefix.       *)
(***************************************************************************)
\* getElement(name)
OldGetElement(els, name) ==
    LET at == NamedItem(els, name)
    IN [threw |-> at = {}, list |-> Cardinality(at) > 1, at |-> at]

\* setData(data): [threw, els].
OldSetData(els, data) == SetElementValues(els, AllTargets(els), data, "old")

\* setElementValue(name, value): [threw, els].
OldSetElementValue(els, name, value) ==
    LET got == OldGetElement(els, name)
    IN IF got.threw THEN [threw |-> TRUE, els |-> els]
       ELSE SetElementValues(els, <<[list |-> got.list, at |-> got.at]>>,
                             JObj(<<[k |-> name, v |-> value]>>), "old")

\* The body of the for loop of resetData for one element.
OldResetElement(el, preserved, keepHidden) ==
    IF el.name \in preserved THEN el
    ELSE IF el.nodeName = "SELECT" THEN UnselectFrom(el, 1)
    ELSE IF el.nodeName = "BUTTON" THEN el
    ELSE IF el.type \in {"radio", "checkbox"}
         THEN [el EXCEPT !.checked = FALSE]
    ELSE IF el.type = "hidden" /\ keepHidden THEN el
    ELSE [el EXCEPT !.value = <<>>]

\* resetData(preserveElements, resetHiddenElements)
OldResetData(els, preserveElements, resetHiddenElements) ==
    [i \in DOMAIN els |->
        OldResetElement(els[i],
                        {preserveElements[n] : n \in DOMAIN preserveElements},
                        resetHiddenElements.t = "bool"
                            /\ Falsy(resetHiddenElements))]


(***************************************************************************)
(* The listener interface of src/lib/Form.js.  A form of the document is   *)
(* [gen, names]: which form it is, and the names of its elements, all of   *)
(* them inputs; an element is [gen, name].  A registration is a call of    *)
(* eventRegistry.on: [event, targets, listener].                           *)
(***************************************************************************)
\* this._form before a form was found: undefined.
UndefinedForm == [gen |-> 0, names |-> {}]

\* The selector that finds every input.
InputSelector == <<"i", "n", "p", "u", "t">>

\* Whether querySelectorAll takes the text for a selector: a word is a type
\* selector, a text with brackets in the places the names have them is none.
ValidSelector(name) == name # <<>> /\ AllIn(name, Letters)

\* $(this._selector)[0], with the check of _setForm: [threw, form, elements]
\* are this._form and this._elements when _setForm returns or throws.
SetForm(document, elementsBefore) ==
    IF document.present
    THEN [threw |-> FALSE,
          form |-> [gen |-> document.gen, names |-> document.names],
          elements |-> [gen |-> document.gen, names |-> document.names]]
    ELSE [threw |-> TRUE, form |-> UndefinedForm,
          elements |-> elementsBefore]

\* getElements(name): the element of that name, else what the selector
\* finds among the form's elements: [threw, targets].
GetElements(formNow, elementsNow, name) ==
    IF name \in elementsNow.names
    THEN [threw |-> FALSE,
          targets |-> {[gen |-> elementsNow.gen, name |-> name]}]
    ELSE IF formNow = UndefinedForm \/ ~ValidSelector(name)
         THEN [threw |-> TRUE, targets |-> {}]
    ELSE [threw |-> FALSE,
          targets |-> IF name = InputSelector
                      THEN {[gen |-> formNow.gen, name |-> n] :
                                n \in formNow.names}
                      ELSE {}]

\* typeof listener === 'function'
IsFunction(listener) == listener.t = "function"

\* addElementListener(event, name, listener, options) on the registries
\* st = [threw, eventData, submitData, log].
AddElementListener(st, formNow, elementsNow, item) ==
    LET got == GetElements(formNow, elementsNow, item.name)
    IN IF got.threw \/ ~IsFunction(item.listener)
       THEN [st EXCEPT !.threw = TRUE]
       ELSE [st EXCEPT
                !.log = Append(@, [event |-> item.event,
                                   targets |-> got.targets,
                                   listener |-> item.listener]),
                !.eventData = Append(@, item)]

\* addSubmitListener(listener, options)
AddSubmitListener(st, formNow, item) ==
    IF formNow = UndefinedForm \/ ~IsFunction(item.listener)
    THEN [st EXCEPT !.threw = TRUE]
    ELSE [st EXCEPT
            !.log = Append(@, [event |-> <<"s", "u", "b", "m", "i", "t">>,
                               targets |-> {[gen |-> formNow.gen,
                                             name |-> <<>>]},
                               listener |-> item.listener]),
            !.submitData = Append(@, item)]

\* The first for loop of refresh, from the i-th item on.
RECURSIVE ReplayEventData(_, _, _, _, _)
ReplayEventData(st, formNow, elementsNow, data, i) ==
    IF st.threw \/ i > Len(data) THEN st
    ELSE ReplayEventData(
            AddElementListener(st, formNow, elementsNow, data[i]),
            formNow, elementsNow, data, i + 1)

\* The second for loop of refresh, from the i-th item on.
RECURSIVE ReplaySubmitData(_, _, _, _)
ReplaySubmitData(st, formNow, data, i) ==
    IF st.threw \/ i > Len(data) THEN st
    ELSE ReplaySubmitData(AddSubmitListener(st, formNow, data[i]),
                          formNow, data, i + 1)

\* A refresh that replays the registries without emptying them first.
RefreshFormKeeping(document, elementsBefore, eventBefore, submitBefore) ==
    LET set == SetForm(document, elementsBefore)
        start == [threw |-> FALSE, eventData |-> eventBefore,
                  submitData |-> submitBefore, log |-> <<>>]
        first == ReplayEventData(start, set.form, set.elements,
                                 eventBefore, 1)
        second == ReplaySubmitData(first, set.form, submitBefore, 1)
    IN [threw |-> set.threw \/ second.threw, form |-> set.form,
        elements |-> set.elements, eventData |-> second.eventData,
        submitData |-> second.submitData, log |-> second.log]

\* refresh(): [threw, form, elements, eventData, submitData, log].
RefreshForm(document, elementsBefore, eventBefore, submitBefore) ==
    LET set == SetForm(document, elementsBefore)
        start == [threw |-> FALSE, eventData |-> <<>>,
                  submitData |-> submitBefore, log |-> <<>>]
        first == ReplayEventData(start, set.form, set.elements,
                                 eventBefore, 1)
        second == IF first.threw THEN first
                  ELSE ReplaySubmitData([first EXCEPT !.submitData = <<>>],
                                        set.form, submitBefore, 1)
    IN IF set.threw
       THEN [threw |-> TRUE, form |-> set.form, elements |-> set.elements,
             eventData |-> eventBefore, submitData |-> submitBefore,
             log |-> <<>>]
       ELSE [threw |-> second.threw, form |-> set.form,
             elements |-> set.elements, eventData |-> second.eventData,
             submitData |-> second.submitData, log |-> second.log]

(***************************************************************************)
(* The class HttpRequest of src/unnamed/part_000, and createHttpRequest of *)
(* src/lib/Form.js.                                                        *)
(***************************************************************************)
LowerCase ==
    <<"a", "b", "c", "d", "e", "f", "g", "h", "i", "j", "k", "l", "m",
      "n", "o", "p", "q", "r", "s", "t", "u", "v", "w", "x", "y", "z">>

UpperCase ==
    <<"A", "B", "C", "D", "E", "F", "G", "H", "I", "J", "K", "L", "M",
      "N", "O", "P", "Q", "R", "S", "T", "U", "V", "W", "X", "Y", "Z">>

\* method.toUpperCase()
ToUpperCase(s) ==
    [i \in DOMAIN s |->
        IF \E n \in DOMAIN LowerCase : LowerCase[n] = s[i]
        THEN UpperCase[CHOOSE n \in DOMAIN LowerCase : LowerCase[n] = s[i]]
        ELSE s[i]]

\* /\?/.test(url)
HasQuery(url) == \E i \in DOMAIN url : url[i] = "?"

\* An HttpRequest that adds the query string whatever the method is.
HttpRequestAnyMethod(method, action, data) ==
    JObj(<<[k |-> <<"_", "m">>, v |-> JStr(ToUpperCase(method))],
           [k |-> <<"_", "u">>,
            v |-> JStr(IF Param(data) # <<>>
                       THEN action
                            \o (IF HasQuery(action) THEN <<"&">> ELSE <<"?">>)
                            \o Param(data)
                       ELSE action)],
           [k |-> <<"_", "d">>, v |-> data],
           [k |-> <<"_", "q">>, v |-> JStr(Param(data))]>>)

\* new HttpRequest(method, action, data): the object with the properties
\* _method (_m), _url (_u), _data (_d) and _queryString (_q).
HttpRequest(method, action, data) ==
    JObj(<<[k |-> <<"_", "m">>, v |-> JStr(ToUpperCase(method))],
           [k |-> <<"_", "u">>,
            v |-> JStr(IF ToUpperCase(method) = <<"G", "E", "T">>
                          /\ Param(data) # <<>>
                       THEN action
                            \o (IF HasQuery(action) THEN <<"&">> ELSE <<"?">>)
                            \o Param(data)
                       ELSE action)],
           [k |-> <<"_", "d">>, v |-> data],
           [k |-> <<"_", "q">>, v |-> JStr(Param(data))]>>)

\* $.extend(target, options): every property of options that is not
\* undefined is set on target.
RECURSIVE ShallowExtend(_, _, _)
ShallowExtend(target, options, i) ==
    IF i > Len(options.kids) THEN target
    ELSE ShallowExtend(
            IF options.kids[i].v.t = "undefined" THEN target
            ELSE SetProp(target, options.kids[i].k, options.kids[i].v),
            options, i + 1)

\* createHttpRequest(skipEmptyValue, extraData) on a form with the given
\* method and action: [threw, request].
CreateHttpRequest(els, prefix, method, action, skipEmptyValue, extraData) ==
    LET got == LibGetData(els, prefix, skipEmptyValue, TRUE)
    IN IF got.threw THEN [threw |-> TRUE, request |-> JUndefined]
       ELSE [threw |-> FALSE,
             request |-> HttpRequest(method, action,
                                     ShallowExtend(got.data, extraData, 1))]

(***************************************************************************)
(* The state of the model.                                                 *)
(***************************************************************************)
VARIABLES
    elements,         \* getData (part_000): the field entries iterated so far
    skipEmptyValues,  \* getData (part_000): its argument
    parsed,           \* getData (part_000): [data, counters] of the loop
    pc,               \* where the modelled run of calls stands
    form,             \* this._elements: the elements of the form, in tree order
    elementNamePrefix,\* this._elementNamePrefix (src/lib/Form.js)
    call,             \* the last call made on the Form object, and its outcome
    doc,              \* the form the selector finds in the document, if any
    heldForm,         \* this._form
    heldElements,     \* this._elements
    eventData,        \* this._eventData
    submitData,       \* this._submitData
    last              \* the last call of the listener interface, its outcome

parseVars == <<elements, skipEmptyValues, parsed>>

formVars == <<form, elementNamePrefix, call>>

refreshVars == <<doc, heldForm, heldElements, eventData, submitData, last>>

vars == <<parseVars, pc, formVars, refreshVars>>

\* No call of the listener interface made yet.
NoLast ==
    [op |-> "none", threw |-> FALSE, log |-> <<>>, eventBefore |-> <<>>,
     submitBefore |-> <<>>]

\* The listener interface is not in use.
RefreshIdle ==
    /\ doc = [gen |-> 0, present |-> FALSE, names |-> {}]
    /\ heldForm = UndefinedForm
    /\ heldElements = UndefinedForm
    /\ eventData = <<>>
    /\ submitData = <<>>
    /\ last = NoLast

\* No call made yet.
NoCall ==
    [op |-> "none", name |-> <<>>, value |-> JUndefined, skip |-> FALSE,
     serialized |-> FALSE, before |-> <<>>, threw |-> FALSE,
     result |-> JUndefined]

(***************************************************************************)
(* The run of getData (part_000) over the entries serializeArray() gives.  *)
(***************************************************************************)
\* The most field entries one call iterates.
MaxEntries == 3

\* The names the form's fields may carry: plain, fixed index, named key,
\* push, nested, a name Object.prototype knows, and two malformed names.
FieldNames ==
    {<<"a">>,
     <<"a", "[", "0", "]">>,
     <<"a", "[", "2", "]">>,
     <<"a", "[", "b", "]">>,
     <<"a", "[", "]">>,
     <<"a", "[", "b", "]", "[", "]">>,
     <<"a", "[", "]", "[", "]">>,
     <<"t", "o", "S", "t", "r", "i", "n", "g", "[", "]">>,
     <<"a", "[", "b">>,
     <<"[", "a", "]">>}

\* The value of the k-th entry: empty, or a text of its own, so that an
\* entry that is overwritten or misplaced shows.
FieldValues(k) ==
    {<<>>, <<CASE k = 1 -> "x" [] k = 2 -> "y" [] k = 3 -> "z" [] OTHER -> "w">>}

ParseInit ==
    /\ elements = <<>>
    /\ skipEmptyValues \in BOOLEAN
    /\ parsed = GetDataStart
    /\ pc = "loop"
    /\ form = <<>>
    /\ elementNamePrefix = JNull
    /\ call = NoCall
    /\ RefreshIdle

\* The loop takes the next entry of the list (lines 327-353).
GetDataNext(element) ==
    /\ pc = "loop"
    /\ Len(elements) < MaxEntries
    /\ elements' = Append(elements, element)
    /\ parsed' = GetDataIteration(parsed, element, skipEmptyValues)
    /\ UNCHANGED <<skipEmptyValues, pc, formVars, refreshVars>>

\* return data (line 355).
GetDataReturn ==
    /\ pc = "loop"
    /\ pc' = "done"
    /\ UNCHANGED <<elements, skipEmptyValues, parsed, formVars, refreshVars>>

ParseNext ==
    \/ \E name \in FieldNames :
         \E value \in FieldValues(Len(elements) + 1) :
            GetDataNext([name |-> name, value |-> value])
    \/ GetDataReturn

SpecParse == ParseInit /\ [][ParseNext]_vars

(***************************************************************************)
(* The forms the Form objects are constructed on.                          *)
(***************************************************************************)
\* The most elements a form has.
MaxElements == 2

Option(value, selected) == [value |-> value, selected |-> selected]

Input(type, name, value, checked) ==
    [nodeName |-> "INPUT", type |-> type, name |-> name, value |-> value,
     checked |-> checked, disabled |-> FALSE, options |-> <<>>]

\* A select with the options "1", "2", ... of which those in sel are selected.
Select(type, name, n, sel) ==
    [nodeName |-> "SELECT", type |-> type, name |-> name, value |-> <<>>,
     checked |-> FALSE, disabled |-> FALSE,
     options |-> [i \in 1..n |-> Option(NatToString(i), i \in sel)]]

\* The name of the form.
FormName == <<"f">>

NameA == <<"a", "[", "]">>
NameA1 == <<"a", "[", "1", "]">>
NameR == <<"r">>
NameS == <<"s", "[", "]">>
NameFX == <<"f", "[", "x", "]">>
NameX == <<"[", "x", "]">>
NameC == <<"c">>
NameO == <<"o">>
NameH == <<"h">>
NameB == <<"b">>
NameG == <<"g">>
NameD == <<"d">>
NameZ == <<"z">>

\* The places of a form in tree order, and what may stand at each: a text
\* input without a name, two checkboxes sharing a push name, a text input
\* with an index name, two radio buttons of one group, a multi-select, a
\* text input named after the form, a single checkbox, a select-one, a
\* hidden input, a submit input, a button, and a disabled text input.
Layout ==
    <<{Input("text", <<>>, <<"1">>, FALSE)},
      {Input("checkbox", NameA, <<"1">>, c) : c \in BOOLEAN},
      {Input("checkbox", NameA, <<"2">>, c) : c \in BOOLEAN},
      {Input("text", NameA1, v, FALSE) : v \in {<<>>, <<"1">>}},
      {Input("radio", NameR, <<"1">>, c) : c \in BOOLEAN},
      {Input("radio", NameR, <<"2">>, c) : c \in BOOLEAN},
      {Select("select-multiple", NameS, 3, sel) :
            sel \in {{}, {1}, {1, 2}, {3}}},
      {Input("text", NameFX, <<"1">>, FALSE)},
      {Input("checkbox", NameC, <<"1">>, c) : c \in BOOLEAN},
      {Select("select-one", NameO, 2, {i}) : i \in {1, 2}},
      {Input("hidden", NameH, <<"1">>, FALSE)},
      {Input("submit", NameB, <<"1">>, FALSE)},
      {[Input("submit", NameG, <<"1">>, FALSE) EXCEPT !.nodeName = "BUTTON"]},
      {[Input("text", NameD, <<"1">>, FALSE) EXCEPT !.disabled = TRUE]}>>

\* The forms of at most room elements over the places from k on.
RECURSIVE FormsFrom(_, _)
FormsFrom(k, room) ==
    IF k > Len(Layout) \/ room = 0 THEN {<<>>}
    ELSE FormsFrom(k + 1, room)
         \cup {<<e>> \o f : e \in Layout[k], f \in FormsFrom(k + 1, room - 1)}

\* At most one radio button of a group is checked.
RadioGroupsExclusive(els) ==
    \A i, j \in DOMAIN els :
        (/\ i # j
         /\ els[i].type = "radio"
         /\ els[j].type = "radio"
         /\ els[i].name = els[j].name
         /\ els[i].checked) => ~els[j].checked

Forms == {f \in FormsFrom(1, MaxElements) : RadioGroupsExclusive(f)}

(***************************************************************************)
(* The arguments of the calls.                                             *)
(***************************************************************************)
Str1 == JStr(<<"1">>)
Str2 == JStr(<<"2">>)

\* ["1"], ["1", "2"]
List(items) ==
    JArr([n \in DOMAIN items |-> [k |-> NatToString(n - 1), v |-> items[n]]])

\* The data setData is given: the empty mapping, a mapping to an empty
\* sequence, serialized data, data with element names as keys, and data
\* keyed by a name in the short form "[x]".
DataValues ==
    {EmptyObject,
     JObj(<<[k |-> <<"a">>, v |-> EmptyArray]>>),
     JObj(<<[k |-> <<"a">>, v |-> List(<<Str1>>)]>>),
     JObj(<<[k |-> <<"s">>, v |-> List(<<Str1, Str2>>)],
            [k |-> NameR, v |-> Str2],
            [k |-> NameC, v |-> Str1]>>),
     JObj(<<[k |-> FormName, v |-> JObj(<<[k |-> <<"x">>, v |-> Str2]>>)]>>),
     JObj(<<[k |-> NameA, v |-> List(<<Str2>>)],
            [k |-> NameS, v |-> List(<<Str1, Str2>>)],
            [k |-> NameFX, v |-> Str2]>>),
     JObj(<<[k |-> NameX, v |-> Str2]>>)}

\* The names setElementValue is given, one of them of no element.
ElementNames == {NameA, NameR, NameS, NameC, NameO, NameFX, NameX, NameZ}

\* The values setElementValue is given: strings, a number, a boolean and a
\* sequence.
ElementValues ==
    {Str1, Str2, JNum(<<"1">>), JBool(<<"t", "r", "u", "e">>),
     List(<<Str1, Str2>>)}

\* The preserve lists resetData is given.
PreserveLists == {<<>>, <<NameX>>, <<NameA>>}

\* The resetHidden argument of resetData: left out, or false.
ResetHiddenValues == {JUndefined, JBool(<<"f", "a", "l", "s", "e">>)}


(***************************************************************************)
(* The Form object of src/lib/Form.js on a form: after construction the    *)
(* prefix may be switched on, then one call is made; the value getData     *)
(* returned may be given back to setData, and getData be called again.     *)
(***************************************************************************)
FormInit ==
    /\ elements = <<>>
    /\ skipEmptyValues = FALSE
    /\ parsed = GetDataStart
    /\ pc = "ready"
    /\ form \in Forms
    /\ elementNamePrefix = JNull
    /\ call = NoCall
    /\ RefreshIdle

\* useNameAsElementNamePrefix()
UsePrefix ==
    /\ pc = "ready"
    /\ elementNamePrefix = JNull
    /\ elementNamePrefix' = UseNameAsElementNamePrefix(FormName)
    /\ UNCHANGED <<parseVars, refreshVars, pc, form, call>>

\* getData(skip, serialized)
GetData(skip, serialized) ==
    /\ pc = "ready"
    /\ LET r == LibGetData(form, elementNamePrefix, skip, serialized)
       IN call' = [NoCall EXCEPT !.op = "getData", !.skip = skip,
                                 !.serialized = serialized, !.before = form,
                                 !.threw = r.threw, !.result = r.data]
    /\ pc' = "done"
    /\ UNCHANGED <<parseVars, refreshVars, form, elementNamePrefix>>

\* setData(data, serialized)
SetData(data, serialized) ==
    /\ pc = "ready"
    /\ LET r == LibSetData(form, elementNamePrefix, data, serialized)
       IN /\ form' = r.els
          /\ call' = [NoCall EXCEPT !.op = "setData", !.value = data,
                                    !.serialized = serialized,
                                    !.before = form, !.threw = r.threw]
    /\ pc' = "done"
    /\ UNCHANGED <<parseVars, refreshVars, elementNamePrefix>>

\* setElementValue(name, value)
SetElementValue(name, value) ==
    /\ pc = "ready"
    /\ LET r == LibSetElementValue(form, elementNamePrefix, name, value)
       IN /\ form' = r.els
          /\ call' = [NoCall EXCEPT !.op = "setElementValue", !.name = name,
                                    !.value = value, !.before = form,
                                    !.threw = r.threw]
    /\ pc' = "done"
    /\ UNCHANGED <<parseVars, refreshVars, elementNamePrefix>>

\* resetData(preserveElements, resetHidden)
ResetData(preserveElements, resetHidden) ==
    /\ pc = "ready"
    /\ form' = LibResetData(form, elementNamePrefix, preserveElements,
                            resetHidden)
    /\ call' = [NoCall EXCEPT !.op = "resetData",
                              !.value = List([n \in DOMAIN preserveElements |->
                                                JStr(preserveElements[n])]),
                              !.result = resetHidden, !.before = form]
    /\ pc' = "done"
    /\ UNCHANGED <<parseVars, refreshVars, elementNamePrefix>>

\* setData(d), d the value the getData() before returned.
SetDataBack ==
    /\ pc = "done"
    /\ call.op = "getData"
    /\ call.serialized
    /\ ~call.threw
    /\ LET r == LibSetData(form, elementNamePrefix, call.result, TRUE)
       IN /\ form' = r.els
          /\ call' = [call EXCEPT !.op = "setData", !.value = call.result,
                                  !.threw = r.threw, !.result = JUndefined]
    /\ pc' = "back"
    /\ UNCHANGED <<parseVars, refreshVars, elementNamePrefix>>

\* getData() after that setData(d).
GetDataAgain ==
    /\ pc = "back"
    /\ ~call.threw
    /\ LET r == LibGetData(form, elementNamePrefix, call.skip, TRUE)
       IN call' = [call EXCEPT !.op = "getData", !.threw = r.threw,
                               !.result = r.data]
    /\ pc' = "again"
    /\ UNCHANGED <<parseVars, refreshVars, form, elementNamePrefix>>

FormNext ==
    \/ UsePrefix
    \/ \E skip, serialized \in BOOLEAN : GetData(skip, serialized)
    \/ \E data \in DataValues : \E serialized \in BOOLEAN :
            SetData(data, serialized)
    \/ \E name \in ElementNames : \E value \in ElementValues :
            SetElementValue(name, value)
    \/ \E names \in PreserveLists : \E resetHidden \in ResetHiddenValues :
            ResetData(names, resetHidden)
    \/ SetDataBack
    \/ GetDataAgain

SpecForm == FormInit /\ [][FormNext]_vars

(***************************************************************************)
(* The Form object of src/unnamed/part_000 on a form: one call.            *)
(***************************************************************************)
OldSetDataCall(data) ==
    /\ pc = "ready"
    /\ LET r == OldSetData(form, data)
       IN /\ form' = r.els
          /\ call' = [NoCall EXCEPT !.op = "setData", !.value = data,
                                    !.before = form, !.threw = r.threw]
    /\ pc' = "done"
    /\ UNCHANGED <<parseVars, refreshVars, elementNamePrefix>>

OldSetElementValueCall(name, value) ==
    /\ pc = "ready"
    /\ LET r == OldSetElementValue(form, name, value)
       IN /\ form' = r.els
          /\ call' = [NoCall EXCEPT !.op = "setElementValue", !.name = name,
                                    !.value = value, !.before = form,
                                    !.threw = r.threw]
    /\ pc' = "done"
    /\ UNCHANGED <<parseVars, refreshVars, elementNamePrefix>>

OldResetDataCall(preserveElements, resetHiddenElements) ==
    /\ pc = "ready"
    /\ form' = OldResetData(form, preserveElements, resetHiddenElements)
    /\ call' = [NoCall EXCEPT !.op = "resetData",
                              !.value = List([n \in DOMAIN preserveElements |->
                                                JStr(preserveElements[n])]),
                              !.result = resetHiddenElements,
                              !.before = form]
    /\ pc' = "done"
    /\ UNCHANGED <<parseVars, refreshVars, elementNamePrefix>>

OldFormNext ==
    \/ \E data \in DataValues : OldSetDataCall(data)
    \/ \E name \in ElementNames : \E value \in ElementValues :
            OldSetElementValueCall(name, value)
    \/ \E names \in PreserveLists : \E resetHidden \in ResetHiddenValues :
            OldResetDataCall(names, resetHidden)

SpecOldForm == FormInit /\ [][OldFormNext]_vars

(***************************************************************************)
(* The listener interface of the Form object of src/lib/Form.js, while the *)
(* document replaces or drops the form the selector finds.                 *)
(***************************************************************************)
\* The most entries a registry takes in, and the most forms the document
\* shows one after the other.
MaxListeners == 2
MaxGen == 2

\* The names the forms' elements carry.
InputNames == {NameA}

\* The names addElementListener is given: an element name, which is no
\* selector, the selector of every input, and a selector of no input.
ListenerNames == InputNames \cup {InputSelector, <<"a">>}

\* The listeners handed over: a function, and a string in place of one.
Listeners == {JFunction, JStr(<<"f">>)}

\* The options handed over.
ListenerOptions == {EmptyObject, JObj(<<[k |-> <<"o">>, v |-> Str1]>>)}

Click == <<"c", "l", "i", "c", "k">>

RefreshInit ==
    /\ elements = <<>>
    /\ skipEmptyValues = FALSE
    /\ parsed = GetDataStart
    /\ pc = "live"
    /\ form = <<>>
    /\ elementNamePrefix = JNull
    /\ call = NoCall
    /\ \E names \in SUBSET InputNames :
          /\ doc = [gen |-> 1, present |-> TRUE, names |-> names]
          /\ heldForm = [gen |-> 1, names |-> names]
          /\ heldElements = [gen |-> 1, names |-> names]
    /\ eventData = <<>>
    /\ submitData = <<>>
    /\ last = NoLast

\* The registries as the operators take them.
Registries ==
    [threw |-> FALSE, eventData |-> eventData, submitData |-> submitData,
     log |-> <<>>]

\* What a call of the listener interface leaves behind.
Outcome(op, st) ==
    /\ eventData' = st.eventData
    /\ submitData' = st.submitData
    /\ last' = [op |-> op, threw |-> st.threw, log |-> st.log,
                eventBefore |-> eventData, submitBefore |-> submitData]

AddElementListenerCall(event, name, listener, options) ==
    /\ pc = "live"
    /\ Len(eventData) < MaxListeners
    /\ Outcome("addElementListener",
               AddElementListener(Registries, heldForm, heldElements,
                                  [event |-> event, name |-> name,
                                   listener |-> listener,
                                   options |-> options]))
    /\ UNCHANGED <<parseVars, pc, formVars, doc, heldForm, heldElements>>

AddSubmitListenerCall(listener, options) ==
    /\ pc = "live"
    /\ Len(submitData) < MaxListeners
    /\ Outcome("addSubmitListener",
               AddSubmitListener(Registries, heldForm,
                                 [listener |-> listener,
                                  options |-> options]))
    /\ UNCHANGED <<parseVars, pc, formVars, doc, heldForm, heldElements>>

Refresh ==
    /\ pc = "live"
    /\ LET r == RefreshForm(doc, heldElements, eventData, submitData)
       IN /\ heldForm' = r.form
          /\ heldElements' = r.elements
          /\ Outcome("refresh", r)
    /\ UNCHANGED <<parseVars, pc, formVars, doc>>

\* The document puts another form in the place the selector looks at.
ReplaceForm(names) ==
    /\ pc = "live"
    /\ doc.gen < MaxGen
    /\ doc' = [gen |-> doc.gen + 1, present |-> TRUE, names |-> names]
    /\ UNCHANGED <<parseVars, pc, formVars, heldForm, heldElements,
                   eventData, submitData, last>>

\* The document drops the form.
RemoveForm ==
    /\ pc = "live"
    /\ doc.present
    /\ doc' = [doc EXCEPT !.present = FALSE, !.names = {}]
    /\ UNCHANGED <<parseVars, pc, formVars, heldForm, heldElements,
                   eventData, submitData, last>>

RefreshNext ==
    \/ \E name \in ListenerNames : \E listener \in Listeners :
         \E options \in ListenerOptions :
            AddElementListenerCall(Click, name, listener, options)
    \/ \E listener \in Listeners : \E options \in ListenerOptions :
            AddSubmitListenerCall(listener, options)
    \/ Refresh
    \/ \E names \in SUBSET InputNames : ReplaceForm(names)
    \/ RemoveForm

SpecRefresh == RefreshInit /\ [][RefreshNext]_vars

(***************************************************************************)
(* getData of both Form classes, each on its own input: that of            *)
(* src/unnamed/part_000 over a list of field entries, that of              *)
(* src/lib/Form.js on a form.                                              *)
(***************************************************************************)
SkipInit == ParseInit \/ FormInit

SkipNext ==
    \/ ParseNext
    \/ UsePrefix
    \/ \E skip, serialized \in BOOLEAN : GetData(skip, serialized)

SpecSkip == SkipInit /\ [][SkipNext]_vars

(***************************************************************************)
(* Requests: made of given arguments, or by a Form object of               *)
(* src/lib/Form.js of its form.                                            *)
(***************************************************************************)
\* The methods given, and those form.method gives.
Methods == {<<"g", "e", "t">>, <<"G", "E", "T">>, <<"p", "o", "s", "t">>}
FormMethods == {<<"g", "e", "t">>, <<"p", "o", "s", "t">>}

\* The actions: without a query, with one, and empty.
Actions == {<<"/", "p">>, <<"/", "p", "?", "q", "=", "1">>, <<>>}

\* The extra data createHttpRequest is given.
ExtraData == {EmptyObject, JObj(<<[k |-> <<"e">>, v |-> Str1]>>)}

\* The arguments of a call, as a list.
Arguments(method, action, data) ==
    List(<<JStr(method), JStr(action), data>>)

\* new HttpRequest(method, action, data)
NewHttpRequest(method, action, data) ==
    /\ pc = "ready"
    /\ call' = [NoCall EXCEPT !.op = "HttpRequest",
                              !.value = Arguments(method, action, data),
                              !.before = form,
                              !.result = HttpRequest(method, action, data)]
    /\ pc' = "done"
    /\ UNCHANGED <<parseVars, refreshVars, form, elementNamePrefix>>

\* createHttpRequest(skipEmptyValue, extraData), the form having the given
\* method and action.
CreateHttpRequestCall(method, action, skipEmptyValue, extraData) ==
    /\ pc = "ready"
    /\ LET r == CreateHttpRequest(form, elementNamePrefix, method, action,
                                  skipEmptyValue, extraData)
       IN call' = [NoCall EXCEPT !.op = "createHttpRequest",
                                 !.value = Arguments(method, action,
                                                     extraData),
                                 !.skip = skipEmptyValue, !.before = form,
                                 !.threw = r.threw, !.result = r.request]
    /\ pc' = "done"
    /\ UNCHANGED <<parseVars, refreshVars, form, elementNamePrefix>>

RequestNext ==
    \/ UsePrefix
    \/ \E method \in Methods : \E action \in Actions :
         \E data \in DataValues : NewHttpRequest(method, action, data)
    \/ \E method \in FormMethods : \E action \in Actions :
         \E skip \in BOOLEAN : \E extraData \in ExtraData :
            CreateHttpRequestCall(method, action, skip, extraData)

SpecRequest == FormInit /\ [][RequestNext]_vars

(***************************************************************************)
(* resetData of both Form classes on a form, called once and once more     *)
(* with the same arguments.                                                *)
(***************************************************************************)
\* The preserve list of the call before, as resetData takes it.
PreserveListOf(c) == [n \in DOMAIN c.value.kids |-> c.value.kids[n].v.s]

\* resetData(preserveElements, resetHidden) once more (src/lib/Form.js).
ResetDataAgain ==
    /\ pc = "done"
    /\ call.op = "resetData"
    /\ form' = LibResetData(form, elementNamePrefix, PreserveListOf(call),
                            call.result)
    /\ pc' = "again"
    /\ UNCHANGED <<parseVars, refreshVars, elementNamePrefix, call>>

\* resetData(preserveElements, resetHiddenElements) (src/unnamed/part_000).
OldResetDataFirst(preserveElements, resetHiddenElements) ==
    /\ pc = "ready"
    /\ form' = OldResetData(form, preserveElements, resetHiddenElements)
    /\ call' = [NoCall EXCEPT !.op = "resetData",
                              !.value = List([n \in DOMAIN preserveElements |->
                                                JStr(preserveElements[n])]),
                              !.result = resetHiddenElements,
                              !.before = form]
    /\ pc' = "oldDone"
    /\ UNCHANGED <<parseVars, refreshVars, elementNamePrefix>>

\* The same call once more (src/unnamed/part_000).
OldResetDataAgain ==
    /\ pc = "oldDone"
    /\ form' = OldResetData(form, PreserveListOf(call), call.result)
    /\ pc' = "oldAgain"
    /\ UNCHANGED <<parseVars, refreshVars, elementNamePrefix, call>>

ResetNext ==
    \/ UsePrefix
    \/ \E names \in PreserveLists : \E resetHidden \in ResetHiddenValues :
            ResetData(names, resetHidden)
    \/ ResetDataAgain
    \/ \E names \in PreserveLists : \E resetHidden \in ResetHiddenValues :
            OldResetDataFirst(names, resetHidden)
    \/ OldResetDataAgain

SpecReset == FormInit /\ [][ResetNext]_vars

(***************************************************************************)
(* The field-name grammar and the path of a name, as the specification     *)
(* states them: identifier ( '[' (digits | identifier)? ']' )*, read from  *)
(* the right end of the name.                                              *)
(***************************************************************************)
RECURSIVE NameSegments(_)
NameSegments(s) ==
    LET opens == {i \in DOMAIN s : s[i] = "["}
    IN IF s # <<>> /\ s[Len(s)] = "]" /\ opens # {}
       THEN LET i == CHOOSE m \in opens : \A n \in opens : n <= m
            IN NameSegments(SubSeq(s, 1, i - 1))
               \o <<SubSeq(s, i + 1, Len(s) - 1)>>
       ELSE <<s>>

InGrammar(s) ==
    LET segs == NameSegments(s)
    IN /\ segs[1] # <<>>
       /\ segs[1][1] \in Letters
       /\ \A i \in DOMAIN segs : AllIn(segs[i], WordChars)

\* Whether getData is to keep the i-th entry iterated.
Kept(i) ==
    /\ InGrammar(elements[i].name)
    /\ ~(skipEmptyValues /\ elements[i].value = <<>>)

KeptEntries == {i \in DOMAIN elements : Kept(i)}

PushFree(segs) == \A i \in DOMAIN segs : segs[i] # <<>>

IsPrefix(p, q) == Len(p) <= Len(q) /\ SubSeq(q, 1, Len(p)) = p

\* The value at a path of own properties.
RECURSIVE Lookup(_, _)
Lookup(v, path) ==
    IF path = <<>> THEN v ELSE Lookup(GetOwn(v, Head(path)), Tail(path))

(***************************************************************************)
(* C1.  Sibling branches coexist: when the kept entries have names without *)
(* push segments whose paths are pairwise distinct and none a prefix of    *)
(* another, the value getData returns holds every entry's value at its     *)
(* path.                                                                   *)
(***************************************************************************)
C1_SiblingsCoexist ==
    pc = "done" =>
        LET path(i) == NameSegments(elements[i].name)
        IN (/\ \A i \in KeptEntries : PushFree(path(i))
            /\ \A i, j \in KeptEntries :
                    i # j => ~IsPrefix(path(i), path(j)))
           => \A i \in KeptEntries :
                    Lookup(parsed.data, path(i)) = JStr(elements[i].value)

(***************************************************************************)
(* C2.  Push accumulation: once the loop has merged a kept entry named     *)
(* P[], P without push segments, its value is at index k of the sequence   *)
(* at P, k being the number of kept entries named P[] before it.           *)
(***************************************************************************)
C2_PushIndex ==
    LET i == Len(elements)
    IN (/\ i >= 1
        /\ Kept(i)
        /\ EndsWith(elements[i].name, <<"[", "]">>)
        /\ PushFree(NameSegments(StripSuffix(elements[i].name, <<"[", "]">>))))
       => LET P == NameSegments(StripSuffix(elements[i].name, <<"[", "]">>))
              k == Cardinality({j \in 1..(i - 1) :
                        Kept(j) /\ elements[j].name = elements[i].name})
          IN Lookup(parsed.data, P \o <<NatToString(k)>>)
                = JStr(elements[i].value)

(***************************************************************************)
(* C3.  Grammar rejection: the state of the loop, and so the value         *)
(* returned, is that of parsing the list without the entries whose names   *)
(* are outside the grammar: such an entry adds no key, no index and no     *)
(* push-counter increment.                                                 *)
(***************************************************************************)
InGrammarEntry(e) == InGrammar(e.name)

C3_MalformedNamesSkipped ==
    parsed = GetDataLoop(GetDataStart, SelectSeq(elements, InGrammarEntry),
                         skipEmptyValues)

\* A returned run in which a malformed name came between two pushes.
C3_Witness ==
    /\ pc = "done"
    /\ Len(elements) = 3
    /\ elements[1].name = <<"a", "[", "]">>
    /\ ~InGrammar(elements[2].name)
    /\ elements[3].name = <<"a", "[", "]">>
    /\ Lookup(parsed.data, <<<<"a">>, <<"1">>>>) = JStr(<<"z">>)

(***************************************************************************)
(* What the claims about the calls speak of.                               *)
(***************************************************************************)
\* A call of one of the given operations has returned or raised.
Called(ops) == pc \in {"done", "back"} /\ call.op \in ops

\* The path of an element name in structured data: its segments, a final
\* push segment left out.
PathOf(name) ==
    LET segs == NameSegments(name)
    IN IF segs[Len(segs)] = <<>> THEN SubSeq(segs, 1, Len(segs) - 1) ELSE segs

\* Whether structured data holds a value for an element name.
HasValueFor(data, name) ==
    /\ name # <<>>
    /\ InGrammar(name)
    /\ Lookup(data, PathOf(name)) # JUndefined

\* The entries of a target: a string is the sequence of itself.
Entries(value) ==
    IF value.t = "str" THEN {value}
    ELSE {GetOwn(value, value.kids[n].k) : n \in DOMAIN value.kids}

\* A target the claims cover: a string or a sequence of strings.
IsTarget(value) ==
    /\ value.t \in {"str", "arr"}
    /\ \A e \in Entries(value) : e.t = "str"

\* A name in the short form "[x]" stands for the form's name followed by it.
PrefixedName(name) ==
    IF Len(name) >= 3 /\ name[1] = "[" /\ name[Len(name)] = "]"
    THEN FormName \o name
    ELSE name

\* The value a call by element name gives the element at position i:
\* setData(data, false) the one under the element's name, setElementValue
\* its value when its name argument is that of the element.
Assigned(i, nameOf(_)) ==
    IF call.op = "setData" THEN GetOwn(call.value, call.before[i].name)
    ELSE IF nameOf(call.name) = call.before[i].name THEN call.value
    ELSE JUndefined

Same(name) == name

(***************************************************************************)
(* C4.  Frame condition of setData(data) in serialized mode: an element    *)
(* whose name has no corresponding value in data is as it was before the   *)
(* call, elements with an empty name included.                             *)
(***************************************************************************)
C4_FrameCondition ==
    (Called({"setData"}) /\ call.serialized /\ ~call.threw
        /\ elementNamePrefix = JNull)
    => \A i \in DOMAIN form :
            ~HasValueFor(call.value, call.before[i].name)
            => form[i] = call.before[i]

(***************************************************************************)
(* C5.  Select assignment is exact: after setData or setElementValue has   *)
(* given a multi-select a string or a sequence of strings, an option is    *)
(* selected if and only if its value is one of the entries.                *)
(***************************************************************************)
C5_SelectExact ==
    (pc = "done" /\ call.op \in {"setData", "setElementValue"}
        /\ ~call.serialized /\ ~call.threw)
    => \A i \in DOMAIN form :
            (/\ form[i].type = "select-multiple"
             /\ IsTarget(Assigned(i, Same)))
            => \A j \in DOMAIN form[i].options :
                    form[i].options[j].selected
                    <=> JStr(form[i].options[j].value)
                            \in Entries(Assigned(i, Same))

(***************************************************************************)
(* C6.  Checkbox and radio assignment: after setData(data, false) or       *)
(* setElementValue(n, value) has assigned a string or a sequence of        *)
(* strings to the name n, every checkbox or radio button named n is        *)
(* checked if and only if its value is one of the entries (a radio button  *)
(* being given one string, as one of a group at most is checked).          *)
(***************************************************************************)
C6_CheckedExact ==
    (pc = "done" /\ call.op \in {"setData", "setElementValue"}
        /\ ~call.serialized /\ ~call.threw /\ elementNamePrefix = JNull)
    => \A i \in DOMAIN form :
            (/\ form[i].type \in {"checkbox", "radio"}
             /\ IsTarget(Assigned(i, Same))
             /\ form[i].type = "radio" => Assigned(i, Same).t = "str")
            => (form[i].checked
                <=> JStr(form[i].value) \in Entries(Assigned(i, Same)))

(***************************************************************************)
(* C7.  Round trip: on a form whose element names all use bracket syntax,  *)
(* d = getData(), setData(d), getData() returns a value equal to d.        *)
(***************************************************************************)
BracketNames(els) ==
    \A i \in DOMAIN els :
        InGrammar(els[i].name) /\ Len(NameSegments(els[i].name)) >= 2

C7_RoundTrip ==
    (pc = "again" /\ ~call.threw /\ ~call.skip /\ BracketNames(form))
    => call.result = call.value

(***************************************************************************)
(* C8.  Listener replay on refresh: a refresh() that returns leaves both   *)
(* registries with the entries they had, in the order they had, and has    *)
(* registered every entry once, in that order, on the form the selector    *)
(* finds now and on the elements of that form the entry's name stands for. *)
(***************************************************************************)
\* The elements of the document's form a name stands for.
FreshTargets(name) ==
    IF name \in doc.names THEN {[gen |-> doc.gen, name |-> name]}
    ELSE IF name = InputSelector
         THEN {[gen |-> doc.gen, name |-> n] : n \in doc.names}
    ELSE {}

C8_ListenerReplay ==
    [][(Refresh /\ ~last'.threw)
       => /\ eventData' = eventData
          /\ submitData' = submitData
          /\ heldForm' = [gen |-> doc.gen, names |-> doc.names]
          /\ Len(last'.log) = Len(eventData) + Len(submitData)
          /\ \A k \in DOMAIN eventData :
                last'.log[k] = [event |-> eventData[k].event,
                                targets |-> FreshTargets(eventData[k].name),
                                listener |-> eventData[k].listener]
          /\ \A k \in DOMAIN submitData :
                last'.log[Len(eventData) + k]
                    = [event |-> <<"s", "u", "b", "m", "i", "t">>,
                       targets |-> {[gen |-> doc.gen, name |-> <<>>]},
                       listener |-> submitData[k].listener]]_vars

\* A refresh that returned on a form put in the place of the one the
\* listeners were registered on: two different element entries, one of them
\* finding an element, and a submit entry.
C8_Witness ==
    /\ last.op = "refresh"
    /\ ~last.threw
    /\ heldForm.gen = 2
    /\ Len(last.eventBefore) = 2
    /\ last.eventBefore[1] # last.eventBefore[2]
    /\ Len(last.submitBefore) >= 1
    /\ eventData = last.eventBefore
    /\ \E k \in DOMAIN eventData : last.log[k].targets # {}

(***************************************************************************)
(* C9.  The element-name prefix is applied uniformly: with the prefix      *)
(* switched on, hasElement, getElement, setElementValue, the preserve list *)
(* of resetData and the keys of setData(data, false) take the name "[x]"   *)
(* for the element name "f[x]" of the form named f.                        *)
(***************************************************************************)
\* data with every key in its long form.
PrefixedKeys(data) ==
    JObj([n \in DOMAIN data.kids |->
            [k |-> PrefixedName(data.kids[n].k), v |-> data.kids[n].v]])

C9_PrefixUniform ==
    (elementNamePrefix = JStr(FormName) /\ pc = "done" /\ ~call.threw)
    => /\ HasElement(form, elementNamePrefix, NameX)
            <=> NamedItem(form, NameFX) # {}
       /\ GetElement(form, elementNamePrefix, NameX).at
            = NamedItem(form, NameFX)
       /\ call.op = "setElementValue"
            => \A i \in DOMAIN form :
                    Assigned(i, PrefixedName) # JUndefined
                    => form[i].value = ToStringJS(call.value)
                       \/ form[i].type # "text"
       /\ call.op = "resetData"
            => \A i \in DOMAIN form :
                    JStr(NameX) \in Entries(call.value)
                    /\ call.before[i].name = NameFX
                    => form[i] = call.before[i]
       /\ (call.op = "setData" /\ ~call.serialized)
            => \A i \in DOMAIN form :
                    LET value == GetOwn(PrefixedKeys(call.value),
                                        call.before[i].name)
                    IN (value.t = "str" /\ form[i].type = "text")
                       => form[i].value = value.s

(***************************************************************************)
(* C10.  setElementValue(name, value) takes a number or a boolean for a    *)
(* checkbox, a radio button or a select: the call does not raise, and      *)
(* leaves the form as the call with the string of the same text does.      *)
(***************************************************************************)
C10_NumberOrBoolean ==
    (pc = "done" /\ call.op = "setElementValue"
        /\ call.value.t \in {"num", "bool"}
        /\ \E i \in DOMAIN form :
                /\ call.before[i].name
                        = PrepareElementName(elementNamePrefix, call.name)
                /\ form[i].type \in {"checkbox", "radio", "select-one",
                                     "select-multiple"})
    => /\ ~call.threw
       /\ form = LibSetElementValue(call.before, elementNamePrefix,
                                    call.name, JStr(call.value.s)).els

(***************************************************************************)
(* C11.  Skip-empty serialization.  With skipEmptyValues true, getData     *)
(* returns what it returns, without skipping, for the input without the    *)
(* entries of empty value: the field entries with the empty string         *)
(* (part_000), the elements whose value is the empty string or the empty   *)
(* sequence (lib/Form.js).  Without skipping, an entry of empty value is   *)
(* kept: the empty string is in the data at the path of its name           *)
(* (part_000), its name is a key of the element values (lib/Form.js).      *)
(***************************************************************************)
NonEmptyEntry(e) == e.value # <<>>

\* The value the element at position i enters getData with, if any.
EntryOf(els, i) == ElementValueOf(els, elementNamePrefix, EmptyObject, i)

\* The form without the elements that enter with an empty value.
RECURSIVE WithoutEmpty(_, _)
WithoutEmpty(els, i) ==
    IF i > Len(els) THEN <<>>
    ELSE (IF ~EntryOf(els, i).skip
             /\ EntryOf(els, i).value \in {JStr(<<>>), EmptyArray}
          THEN <<>> ELSE <<els[i]>>)
         \o WithoutEmpty(els, i + 1)

C11_SkipEmpty ==
    /\ (pc \in {"loop", "done"} /\ form = <<>> /\ skipEmptyValues)
        => parsed = GetDataLoop(GetDataStart,
                                SelectSeq(elements, NonEmptyEntry), FALSE)
    /\ (pc \in {"loop", "done"} /\ form = <<>> /\ ~skipEmptyValues
            /\ elements # <<>>)
        => LET e == elements[Len(elements)]
           IN (InGrammar(e.name) /\ PushFree(NameSegments(e.name))
                    /\ e.value = <<>>)
              => Lookup(parsed.data, NameSegments(e.name)) = JStr(<<>>)
    /\ (pc = "done" /\ call.op = "getData" /\ ~call.threw /\ call.skip)
        => call.result
             = LibGetData(WithoutEmpty(form, 1), elementNamePrefix, FALSE,
                          call.serialized).data
    /\ (pc = "done" /\ call.op = "getData" /\ ~call.threw /\ ~call.skip
            /\ ~call.serialized)
        => \A i \in DOMAIN form :
                ~EntryOf(form, i).skip => HasOwn(call.result, form[i].name)

\* getData(true, false) has returned on a form of an unchecked checkbox and
\* a filled text input: the one left out, the other kept.
C11_Witness ==
    /\ pc = "done"
    /\ call.op = "getData"
    /\ call.skip
    /\ ~call.serialized
    /\ Len(form) = 2
    /\ form[1].type = "checkbox"
    /\ ~form[1].checked
    /\ ~HasOwn(call.result, form[1].name)
    /\ form[2].type = "text"
    /\ GetOwn(call.result, form[2].name) = Str1

(***************************************************************************)
(* C12.  HttpRequest URL derivation: the method of a request is the given  *)
(* method in upper case, its query string the serialization of its data;   *)
(* its URL is the action, followed, when the method is GET and the query   *)
(* string is not empty, by "&" if the action holds a "?", else by "?", and *)
(* by the query string.                                                    *)
(***************************************************************************)
\* u is s with every small letter made a capital.
IsUpperCaseOf(u, s) ==
    /\ Len(u) = Len(s)
    /\ \A i \in DOMAIN s :
        \/ u[i] = s[i] /\ ~\E n \in DOMAIN LowerCase : LowerCase[n] = s[i]
        \/ \E n \in DOMAIN LowerCase :
                LowerCase[n] = s[i] /\ UpperCase[n] = u[i]

C12_RequestUrl ==
    (pc = "done" /\ call.op \in {"HttpRequest", "createHttpRequest"}
        /\ ~call.threw)
    => LET method == GetOwn(call.value, <<"0">>).s
           action == GetOwn(call.value, <<"1">>).s
           request == call.result
           data == GetOwn(request, <<"_", "d">>)
           query == GetOwn(request, <<"_", "q">>).s
           url == GetOwn(request, <<"_", "u">>).s
           isGet == GetOwn(request, <<"_", "m">>).s = <<"G", "E", "T">>
       IN /\ IsUpperCaseOf(GetOwn(request, <<"_", "m">>).s, method)
          /\ query = Param(data)
          /\ call.op = "HttpRequest"
                => data = GetOwn(call.value, <<"2">>)
          /\ (isGet /\ query # <<>> /\ HasQuery(action))
                => url = action \o <<"&">> \o query
          /\ (isGet /\ query # <<>> /\ ~HasQuery(action))
                => url = action \o <<"?">> \o query
          /\ (~isGet \/ query = <<>>) => url = action

\* A GET request of a form with data, on an action that holds a query.
C12_Witness ==
    /\ pc = "done"
    /\ call.op = "createHttpRequest"
    /\ ~call.threw
    /\ GetOwn(call.result, <<"_", "m">>).s = <<"G", "E", "T">>
    /\ HasQuery(GetOwn(call.value, <<"1">>).s)
    /\ GetOwn(call.result, <<"_", "q">>).s # <<>>
    /\ Len(GetOwn(call.result, <<"_", "u">>).s)
            > Len(GetOwn(call.value, <<"1">>).s)

(***************************************************************************)
(* C13.  resetData is idempotent: the second of two calls with the same    *)
(* arguments changes no element, and neither call changes an element named *)
(* in the preserve list (a name "[x]" standing for "f[x]" once the prefix  *)
(* is in use in lib/Form.js) or a hidden input when resetHidden is false.  *)
(***************************************************************************)
\* Whether the element is exempt from the reset the step makes.
Exempt(el) ==
    \/ \E n \in DOMAIN call'.value.kids :
            el.name = IF pc' \in {"done", "again"}
                         /\ elementNamePrefix = JStr(FormName)
                      THEN PrefixedName(call'.value.kids[n].v.s)
                      ELSE call'.value.kids[n].v.s
    \/ el.type = "hidden"
        /\ call'.result = JBool(<<"f", "a", "l", "s", "e">>)

C13_ResetIdempotent ==
    [][/\ (ResetDataAgain \/ OldResetDataAgain) => form' = form
       /\ (call'.op = "resetData" /\ pc' # pc)
            => /\ Len(form') = Len(form)
               /\ \A i \in DOMAIN form : Exempt(form[i]) => form'[i] = form[i]
      ]_vars

\* Two calls of resetData(["a[]"]) of src/lib/Form.js on a form of a checked
\* checkbox a[] and another element, which the first call has reset.
C13_Witness ==
    /\ pc = "again"
    /\ Len(form) = 2
    /\ form[1].name = NameA
    /\ form[1].checked
    /\ JStr(NameA) \in Entries(call.value)
    /\ form[2] # call.before[2]

(***************************************************************************)
(* C14.  getData of lib/Form.js reports only checked choices: the value of *)
(* a checkbox or radio button that is not checked is not in the element    *)
(* values under its name, be the element alone under its name or one of a  *)
(* group.                                                                  *)
(***************************************************************************)
C14_OnlyChecked ==
    (pc = "done" /\ call.op = "getData" /\ ~call.threw /\ ~call.serialized)
    => \A i \in DOMAIN form :
            (form[i].type \in {"checkbox", "radio"} /\ ~form[i].checked)
            => JStr(form[i].value)
                    \notin Entries(GetOwn(call.result, form[i].name))

(***************************************************************************)
(* C15.  Sequences built from push segments are dense: when every bracket  *)
(* of every kept name is the empty bracket, every sequence in the data of  *)
(* getData (part_000) has its entries at the indices 0..n-1, at every      *)
(* level.  Names that begin with a name Object.prototype knows are left    *)
(* aside (C2).                                                             *)
(***************************************************************************)
RECURSIVE Dense(_)
Dense(v) ==
    /\ v.t = "arr" => \A n \in DOMAIN v.kids : v.kids[n].k = NatToString(n - 1)
    /\ \A n \in DOMAIN v.kids : Dense(v.kids[n].v)

OnlyPushSegments(name) ==
    /\ NameSegments(name)[1] \notin ObjectPrototypeKeys
    /\ \A j \in 2..Len(NameSegments(name)) : NameSegments(name)[j] = <<>>

C15_PushSequencesDense ==
    (pc \in {"loop", "done"}
        /\ \A i \in KeptEntries : OnlyPushSegments(elements[i].name))
    => Dense(parsed.data)

(***************************************************************************)
(* C16.  A failed refresh changes nothing: a refresh() of lib/Form.js that *)
(* raises leaves the form reference, the element collection and both       *)
(* registries as they were before the call.                                *)
(***************************************************************************)
C16_FailedRefreshChangesNothing ==
    [][(Refresh /\ last'.threw)
       => /\ heldForm' = heldForm
          /\ heldElements' = heldElements
          /\ eventData' = eventData
          /\ submitData' = submitData]_vars

(***************************************************************************)
(* C17.  resetData never alters button-like elements: whatever the form    *)
(* and the arguments, resetData of lib/Form.js leaves the value of every   *)
(* BUTTON element and of every input of type submit, reset or button as it *)
(* was.                                                                    *)
(***************************************************************************)
ButtonLike(el) ==
    el.nodeName = "BUTTON" \/ el.type \in {"submit", "reset", "button"}

C17_ButtonsUntouched ==
    (pc = "done" /\ call.op = "resetData")
    => \A i \in DOMAIN form :
          ButtonLike(call.before[i]) => form[i].value = call.before[i].value

=============================================================================
